---- MODULE Spec2Model ----
(***************************************************************************)
(* Model of the registration / login / logout surface of mes_depenses:     *)
(*   app/controllers/auth_controller.ts  (AuthController)                  *)
(*   app/validators/auth.ts              (registerValidator, loginValidator)*)
(*   the users-table migration           (columns, defaults, unique email) *)
(*                                                                         *)
(* Strings are modelled by what the code looks at: a name and a password   *)
(* by their length (a password also by a variant, so that two different    *)
(* passwords of one length exist), an email by its text.                   *)
(***************************************************************************)
EXTENDS Integers, FiniteSets, Sequences, TLC

VARIABLES
    users,        \* rows of the users table
    nextUserId,   \* auto-increment of users.id
    tokens,       \* outstanding access tokens: [id, user]
    nextTokenId,  \* auto-increment of the token identifier
    revoked,      \* identifiers of the tokens deleted by logout (history)
    reg,          \* per client: the register request in flight / last answered
    last          \* the last answered login or logout request (observation)

vars == <<users, nextUserId, tokens, nextTokenId, revoked, reg, last>>

----------------------------------------------------------------------------
(* Bounds of the model *)

MaxUsers == 3       \* users.id values the model hands out
MaxTokens == 2      \* token identifiers the model hands out

Procs == {"c1", "c2"}   \* clients whose register requests may interleave

(* Program constants *)

NameMinLength == 3
NameMaxLength == 64
PasswordMinLength == 8
RegisterPasswordMaxLength == 512
LoginPasswordMaxLength == 32

----------------------------------------------------------------------------
(* Input domains *)

ValidEmails == {"a@x.com", "b@x.com"}
Emails == ValidEmails \cup {"not-an-email"}

NoName == [present |-> FALSE, len |-> 0]
Names == {NoName, [present |-> TRUE, len |-> 2], [present |-> TRUE, len |-> 3]}

\* a password: its length and which string of that length it is. The lengths
\* are one below the minimum of both validators (7), one both accept (8) and
\* one that only registerValidator accepts (33).
RegisterPasswords == {[len |-> 7, v |-> 1], [len |-> 8, v |-> 1], [len |-> 33, v |-> 1]}
LoginPasswords == RegisterPasswords \cup {[len |-> 8, v |-> 2]}

RegisterPayloads == [name : Names, email : Emails, password : RegisterPasswords]
NoPayload == [name |-> NoName, email |-> "", password |-> [len |-> 0, v |-> 0]]

Null == 0               \* deletedAt of a row that is not soft-deleted
NoToken == 0            \* no token identifier
NoUser == [id |-> 0]    \* no row

----------------------------------------------------------------------------
(* Validators *)

\* vine.string().email()
IsEmail(e) == e \in ValidEmails

\* name: vine.string().minLength(3).maxLength(64).optional()
NameValid(n) == ~n.present \/ (n.len >= NameMinLength /\ n.len <= NameMaxLength)

\* the .unique() rule of registerValidator: the query finds no row
EmailUniqueRuleOff(us, e) == TRUE
EmailUniqueRule(us, e) == ~(\E u \in us : u.email = e)

\* registerValidator without its database rule
RegisterShapeValid(payload) ==
    /\ NameValid(payload.name)
    /\ IsEmail(payload.email)
    /\ payload.password.len >= PasswordMinLength
    /\ payload.password.len <= RegisterPasswordMaxLength

RegisterValid(us, payload) ==
    RegisterShapeValid(payload) /\ EmailUniqueRule(us, payload.email)

LoginValid(email, password) ==
    /\ IsEmail(email)
    /\ password.len >= PasswordMinLength
    /\ password.len <= LoginPasswordMaxLength

----------------------------------------------------------------------------
(* The User model: password hashing and verifyCredentials *)

Hash(password) == [digest |-> password]
HashVerify(h, password) == h = Hash(password)

\* .where('email', ...).first()
FindByEmail(us, e) ==
    IF \E u \in us : u.email = e
    THEN CHOOSE u \in us : u.email = e /\ \A w \in us : w.email = e => u.id <= w.id
    ELSE NoUser

\* the row of the credentials, or NoUser when verifyCredentials throws
VerifyCredentials(us, e, password) ==
    LET u == FindByEmail(us, e)
    IN  IF u # NoUser /\ HashVerify(u.password, password) THEN u ELSE NoUser

----------------------------------------------------------------------------
(* The users table *)

UniqueConstraintOff(us, e) == FALSE
\* table.string('email', 254).notNullable().unique()
UniqueViolation(us, e) == \E u \in us : u.email = e

NewUserAdminDefault(id, payload) ==
    [id |-> id, name |-> payload.name, email |-> payload.email,
     password |-> Hash(payload.password),
     status |-> "active", isAdmin |-> TRUE, deletedAt |-> Null]
\* the row User.create(payload) inserts: the payload plus the column defaults
NewUser(id, payload) ==
    [id |-> id, name |-> payload.name, email |-> payload.email,
     password |-> Hash(payload.password),
     status |-> "active", isAdmin |-> FALSE, deletedAt |-> Null]

EmailsUnique(us) == \A u, w \in us : u.email = w.email => u = w

\* rows that exist before the first request of a run: none, or one account of
\* a@x.com that was registered earlier and, since then, possibly disabled or
\* soft-deleted
SeedUsers ==
    {[NewUser(1, [name |-> NoName, email |-> "a@x.com", password |-> pw])
        EXCEPT !.status = st, !.deletedAt = del] :
        pw \in {[len |-> 8, v |-> 1], [len |-> 33, v |-> 1]},
        st \in {"active", "disable"},
        del \in {Null, 1}}

----------------------------------------------------------------------------
(* Responses *)

StatusCode(kind) ==
    CASE kind = "Created" -> 201
      [] kind = "Ok" -> 200
      [] kind = "ValidationError" -> 422
      [] kind = "DuplicateEmail" -> 409
      [] kind = "RegistrationFailed" -> 400
      [] kind = "InvalidCredentials" -> 400
      [] kind = "AccountDisabled" -> 403
      [] kind = "AccountNotFound" -> 403
      [] kind = "TokenMissing" -> 401
      [] kind = "Unauthorized" -> 401
      [] OTHER -> 0

----------------------------------------------------------------------------
Init ==
    /\ users \in {{}} \cup {{u} : u \in SeedUsers}
    /\ nextUserId = IF users = {} THEN 1 ELSE 2
    /\ tokens = {}
    /\ nextTokenId = 1
    /\ revoked = {}
    /\ reg = [p \in Procs |-> [pc |-> "idle", payload |-> NoPayload,
                               resp |-> "none", taken |-> FALSE]]
    /\ last = [op |-> "none", email |-> "", password |-> [len |-> 0, v |-> 0],
               row |-> NoUser, presented |-> NoToken, resp |-> "none",
               tok |-> NoToken]

----------------------------------------------------------------------------
(* register: the three awaited steps of one request *)

\* request.validateUsing(registerValidator)
RegisterValidate(p, payload) ==
    /\ reg[p].pc = "idle"
    /\ reg' = [reg EXCEPT ![p] =
                 [pc |-> IF RegisterValid(users, payload) THEN "validated" ELSE "idle",
                  payload |-> payload,
                  resp |-> IF RegisterValid(users, payload) THEN "none"
                           ELSE "ValidationError",
                  taken |-> \E u \in users : u.email = payload.email]]
    /\ UNCHANGED <<users, nextUserId, tokens, nextTokenId, revoked, last>>

\* emailexist = User.query().where('email', '=', payload.email).first()
RegisterEmailExist(p) ==
    /\ reg[p].pc = "validated"
    /\ IF FindByEmail(users, reg[p].payload.email) # NoUser
       THEN reg' = [reg EXCEPT ![p].pc = "idle", ![p].resp = "DuplicateEmail"]
       ELSE reg' = [reg EXCEPT ![p].pc = "checked"]
    /\ UNCHANGED <<users, nextUserId, tokens, nextTokenId, revoked, last>>

\* User.create(payload) inside try / catch: the insert either violates the
\* unique constraint and throws, or returns the new row
RegisterCreate(p) ==
    /\ reg[p].pc = "checked"
    /\ nextUserId <= MaxUsers
    /\ IF UniqueViolation(users, reg[p].payload.email)
       THEN /\ reg' = [reg EXCEPT ![p].pc = "idle", ![p].resp = "RegistrationFailed"]
            /\ UNCHANGED <<users, nextUserId>>
       ELSE /\ users' = users \cup {NewUser(nextUserId, reg[p].payload)}
            /\ nextUserId' = nextUserId + 1
            /\ reg' = [reg EXCEPT ![p].pc = "idle", ![p].resp = "Created"]
    /\ UNCHANGED <<tokens, nextTokenId, revoked, last>>

----------------------------------------------------------------------------
(* login *)

TokenIds(toks) == {t.id : t \in toks}

\* the gates placed before the credential check
LoginResultGatesFirst(us, email, password) ==
    IF ~LoginValid(email, password) THEN "ValidationError"
    ELSE LET found == FindByEmail(us, email)
             user == VerifyCredentials(us, email, password)
         IN  IF found # NoUser /\ found.status = "disable" THEN "AccountDisabled"
             ELSE IF found # NoUser /\ found.deletedAt # Null THEN "AccountNotFound"
             ELSE IF user = NoUser THEN "InvalidCredentials"
             ELSE "Ok"
\* the status gate left out
LoginResultNoStatusGate(us, email, password) ==
    IF ~LoginValid(email, password) THEN "ValidationError"
    ELSE LET user == VerifyCredentials(us, email, password)
         IN  IF user = NoUser THEN "InvalidCredentials"
             ELSE IF user.deletedAt # Null THEN "AccountNotFound"
             ELSE "Ok"
\* the deletedAt gate left out
LoginResultNoDeletedGate(us, email, password) ==
    IF ~LoginValid(email, password) THEN "ValidationError"
    ELSE LET user == VerifyCredentials(us, email, password)
         IN  IF user = NoUser THEN "InvalidCredentials"
             ELSE IF user.status = "disable" THEN "AccountDisabled"
             ELSE "Ok"
\* the answer of login: validator, verifyCredentials, status gate, deletedAt gate
LoginResult(us, email, password) ==
    IF ~LoginValid(email, password) THEN "ValidationError"
    ELSE LET user == VerifyCredentials(us, email, password)
         IN  IF user = NoUser THEN "InvalidCredentials"
             ELSE IF user.status = "disable" THEN "AccountDisabled"
             ELSE IF user.deletedAt # Null THEN "AccountNotFound"
             ELSE "Ok"

\* the token created before the account-state gates
LoginMintsBeforeGates(resp) == resp \in {"Ok", "AccountDisabled", "AccountNotFound"}
\* login reaches User.accessTokens.create only past every early return
LoginMints(resp) == resp = "Ok"

\* the lowest identifier that is not outstanding, instead of a fresh one
AccessTokenIdentifierReused(toks, next) ==
    CHOOSE i \in 1..next : i \notin TokenIds(toks) /\ \A j \in 1..(i - 1) : j \in TokenIds(toks)
\* the identifier of the token User.accessTokens.create inserts
AccessTokenIdentifier(toks, next) == next

\* User.accessTokens.create(user)
AccessTokensCreate(toks, userId, identifier) ==
    toks \cup {[id |-> identifier, user |-> userId]}

Login(email, password) ==
    LET resp == LoginResult(users, email, password)
        user == VerifyCredentials(users, email, password)
        identifier == AccessTokenIdentifier(tokens, nextTokenId)
    IN  /\ LoginMints(resp) => nextTokenId <= MaxTokens
        /\ IF LoginMints(resp)
           THEN /\ tokens' = AccessTokensCreate(tokens, user.id, identifier)
                /\ nextTokenId' = nextTokenId + 1
           ELSE UNCHANGED <<tokens, nextTokenId>>
        /\ last' = [op |-> "login", email |-> email, password |-> password,
                    row |-> FindByEmail(users, email), presented |-> NoToken,
                    resp |-> resp,
                    tok |-> IF LoginMints(resp) THEN identifier ELSE NoToken]
        /\ UNCHANGED <<users, nextUserId, revoked, reg>>

----------------------------------------------------------------------------
(* logout *)

\* the auth layer: the user id of the request's bearer token, 0 when the token
\* is not outstanding
AuthUser(toks, presented) ==
    IF \E t \in toks : t.id = presented
    THEN (CHOOSE t \in toks : t.id = presented).user
    ELSE 0

\* every token of the user deleted
AccessTokensDeleteAll(toks, userId, identifier) == {t \in toks : t.user # userId}
\* User.accessTokens.delete(user, token)
AccessTokensDelete(toks, userId, identifier) ==
    {t \in toks : ~(t.id = identifier /\ t.user = userId)}

\* getUserOrFail throws, or the identifier is missing, or the token is deleted
LogoutResult(authUser, identifier) ==
    IF authUser = 0 THEN "Unauthorized"
    ELSE IF identifier = NoToken THEN "TokenMissing"
    ELSE "Ok"

\* presented: the bearer token of the request; resolvable: whether the auth
\* layer exposes currentAccessToken.identifier for it
Logout(presented, resolvable) ==
    LET authUser == AuthUser(tokens, presented)
        identifier == IF resolvable THEN presented ELSE NoToken
        resp == LogoutResult(authUser, identifier)
    IN  /\ tokens' = IF resp = "Ok"
                     THEN AccessTokensDelete(tokens, authUser, identifier)
                     ELSE tokens
        /\ revoked' = revoked \cup (TokenIds(tokens) \ TokenIds(tokens'))
        /\ last' = [op |-> "logout", email |-> "", password |-> [len |-> 0, v |-> 0],
                    row |-> [id |-> authUser], presented |-> presented,
                    resp |-> resp, tok |-> identifier]
        /\ UNCHANGED <<users, nextUserId, nextTokenId, reg>>

----------------------------------------------------------------------------------------------------------------------------------------
(* Specifications *)

\* the client whose register requests run next to login and logout
Client == "c1"
SessionPayloads == {payload \in RegisterPayloads : payload.name = NoName}

\* every operation of the controller; one client registers
Next ==
    \/ \E payload \in SessionPayloads : RegisterValidate(Client, payload)
    \/ RegisterEmailExist(Client)
    \/ RegisterCreate(Client)
    \/ \E email \in Emails, password \in LoginPasswords : Login(email, password)
    \/ \E presented \in 0..MaxTokens, resolvable \in BOOLEAN : Logout(presented, resolvable)

Spec == Init /\ [][Next]_vars

\* register requests of several clients, their awaited steps interleaved
NextRegister ==
    \/ \E p \in Procs, payload \in RegisterPayloads : RegisterValidate(p, payload)
    \/ \E p \in Procs : RegisterEmailExist(p)
    \/ \E p \in Procs : RegisterCreate(p)

SpecRegister == Init /\ [][NextRegister]_vars

----------------------------------------------------------------------------
(* Steps and facts the properties speak about *)

Stored(us, e) == \E u \in us : u.email = e

ValidateStep(p) == reg[p].pc = "idle" /\ reg'[p] # reg[p]
ExistStep(p) == reg[p].pc = "validated" /\ reg'[p] # reg[p]
CreateStep(p) == reg[p].pc = "checked" /\ reg'[p] # reg[p]
LoginStep == last' # last /\ last'.op = "login"
LogoutStep == last' # last /\ last'.op = "logout"

Answered(p) == reg[p].pc = "idle" /\ reg[p].resp # "none"

\* the last login named a stored account and gave its password
LastLoginCorrect ==
    /\ last.op = "login"
    /\ last.row # NoUser
    /\ HashVerify(last.row.password, last.password)

\* the last login named a stored account and gave another password
LastLoginWrong ==
    /\ last.op = "login"
    /\ last.row # NoUser
    /\ ~HashVerify(last.row.password, last.password)

----------------------------------------------------------------------------
(* Properties of register, checked under SpecRegister *)

\* C1: whatever the interleaving of the register requests' steps, no two rows
\* of users get the same email; a request that passed both existence checks
\* and reaches User.create when the email has meanwhile been stored inserts
\* nothing and is answered 400 RegistrationFailed.
C1_UniqueEmailUnderRaces ==
    [][/\ EmailsUnique(users')
       /\ \A p \in Procs :
            CreateStep(p) /\ Stored(users, reg[p].payload.email) =>
                /\ reg'[p].resp = "RegistrationFailed"
                /\ StatusCode(reg'[p].resp) = 400
                /\ users' = users]_vars

\* two requests for one email both reached User.create: one row, one 400
C1_Witness ==
    \E p, q \in Procs :
        /\ p # q
        /\ Answered(p) /\ Answered(q)
        /\ reg[p].payload.email = reg[q].payload.email
        /\ reg[p].resp = "Created"
        /\ reg[q].resp = "RegistrationFailed"
        /\ Cardinality({u \in users : u.email = reg[p].payload.email}) = 1

\* C2 as stated: an otherwise valid register request whose email was already
\* stored when the request arrived is answered 409 DuplicateEmail.
C2_DuplicateAnswers409 ==
    \A p \in Procs :
        Answered(p) /\ RegisterShapeValid(reg[p].payload) /\ reg[p].taken =>
            reg[p].resp = "DuplicateEmail"

\* C2 amended: an otherwise valid register request whose email is stored when
\* the validator runs is answered 422 ValidationError by the validator's
\* uniqueness rule and changes no row; 409 DuplicateEmail is answered only to
\* a request whose email was not stored when the validator ran and is stored
\* when the controller queries it, and changes no row either.
C2_DuplicateRejectedByValidator ==
    [][\A p \in Procs :
        /\ ValidateStep(p) /\ RegisterShapeValid(reg'[p].payload)
             /\ Stored(users, reg'[p].payload.email) =>
                /\ reg'[p].resp = "ValidationError"
                /\ StatusCode(reg'[p].resp) = 422
                /\ reg'[p].pc = "idle"
                /\ users' = users
        /\ ExistStep(p) /\ Stored(users, reg[p].payload.email) =>
                /\ reg'[p].resp = "DuplicateEmail"
                /\ StatusCode(reg'[p].resp) = 409
                /\ reg'[p].pc = "idle"
                /\ users' = users
        /\ reg'[p].resp = "DuplicateEmail" => ~reg'[p].taken]_vars

\* a valid payload with a stored email was answered 422 and the row is there
C2_Witness ==
    \E p \in Procs :
        /\ Answered(p)
        /\ RegisterShapeValid(reg[p].payload)
        /\ reg[p].taken
        /\ reg[p].resp = "ValidationError"
        /\ Stored(users, reg[p].payload.email)

\* C3: a register request with a valid payload whose email is not stored
\* passes the validator, passes the controller's existence check, and its
\* User.create is answered 201 and leaves exactly one row with that email:
\* status "active", isAdmin false, deletedAt null, the password stored as a
\* hash that verifies against, and differs from, the submitted password.
C3_FreshEmailCreatesUser ==
    [][\A p \in Procs :
        /\ ValidateStep(p) /\ RegisterShapeValid(reg'[p].payload)
             /\ ~Stored(users, reg'[p].payload.email) =>
                reg'[p].pc = "validated" /\ reg'[p].resp = "none"
        /\ ExistStep(p) /\ ~Stored(users, reg[p].payload.email) =>
                reg'[p].pc = "checked" /\ reg'[p].resp = "none"
        /\ CreateStep(p) /\ ~Stored(users, reg[p].payload.email) =>
                LET rows == {u \in users' : u.email = reg[p].payload.email}
                IN  /\ reg'[p].resp = "Created"
                    /\ StatusCode(reg'[p].resp) = 201
                    /\ Cardinality(rows) = 1
                    /\ users' = users \cup rows
                    /\ \A u \in rows :
                        /\ u.status = "active"
                        /\ u.isAdmin = FALSE
                        /\ u.deletedAt = Null
                        /\ u.name = reg[p].payload.name
                        /\ u.password # reg[p].payload.password
                        /\ HashVerify(u.password, reg[p].payload.password)]_vars

\* a payload with a name was answered 201 and its row is stored
C3_Witness ==
    \E p \in Procs :
        /\ Answered(p)
        /\ reg[p].resp = "Created"
        /\ reg[p].payload.name.present
        /\ \E u \in users :
            u.email = reg[p].payload.email /\ u.status = "active" /\ ~u.isAdmin

----------------------------------------------------------------------------
(* Properties of login and logout, checked under Spec *)

\* C4: a login that names a stored account with a wrong password is never
\* answered AccountDisabled or AccountNotFound (nor 200) and mints no token,
\* whatever the account's status and deletedAt; when the request passes
\* loginValidator it is answered 400 InvalidCredentials.
C4_WrongPasswordInvalidCredentials ==
    LastLoginWrong =>
        /\ last.resp \notin {"AccountDisabled", "AccountNotFound", "Ok"}
        /\ last.tok = NoToken
        /\ LoginValid(last.email, last.password) =>
              last.resp = "InvalidCredentials" /\ StatusCode(last.resp) = 400

\* a wrong password for a disabled and soft-deleted account: InvalidCredentials
C4_Witness ==
    /\ LastLoginWrong
    /\ last.row.status = "disable"
    /\ last.row.deletedAt # Null
    /\ last.resp = "InvalidCredentials"

\* C5: a login with the correct password of an account whose status is
\* "disable" is never answered InvalidCredentials (nor 200) and mints no
\* token; when the request passes loginValidator it is answered 403
\* AccountDisabled.
C5_DisabledAccountRejected ==
    LastLoginCorrect /\ last.row.status = "disable" =>
        /\ last.resp \notin {"InvalidCredentials", "Ok"}
        /\ last.tok = NoToken
        /\ LoginValid(last.email, last.password) =>
              last.resp = "AccountDisabled" /\ StatusCode(last.resp) = 403

\* the correct password of a disabled, not soft-deleted account: AccountDisabled
C5_Witness ==
    /\ LastLoginCorrect
    /\ last.row.status = "disable"
    /\ last.row.deletedAt = Null
    /\ last.resp = "AccountDisabled"

\* C6 as stated: a login that passes loginValidator with the correct password
\* of a soft-deleted account is answered AccountNotFound, whatever the status.
C6_DeletedAlwaysNotFound ==
    LastLoginCorrect /\ last.row.deletedAt # Null
        /\ LoginValid(last.email, last.password) =>
            last.resp = "AccountNotFound" /\ last.tok = NoToken

\* C6 amended: a login with the correct password of a soft-deleted account
\* mints no token and is never answered 200 or InvalidCredentials; when it
\* passes loginValidator it is answered AccountNotFound if the status is not
\* "disable" and AccountDisabled if it is (the status gate comes first); both
\* are 403.
C6_DeletedAccountRejected ==
    LastLoginCorrect /\ last.row.deletedAt # Null =>
        /\ last.resp \notin {"InvalidCredentials", "Ok"}
        /\ last.tok = NoToken
        /\ LoginValid(last.email, last.password) =>
              /\ last.resp = IF last.row.status = "disable"
                             THEN "AccountDisabled" ELSE "AccountNotFound"
              /\ StatusCode(last.resp) = 403

\* the correct password of an active, soft-deleted account: AccountNotFound
C6_Witness ==
    /\ LastLoginCorrect
    /\ last.row.deletedAt # Null
    /\ last.row.status = "active"
    /\ last.resp = "AccountNotFound"

\* C7: a logout whose bearer token is outstanding and whose identifier is
\* resolved is answered 200 and removes that token and no other: the token
\* set loses exactly the token of that identifier.
C7_LogoutRevokesExactlyThatToken ==
    [][LogoutStep /\ last'.tok # NoToken
         /\ (\E t \in tokens : t.id = last'.presented) =>
            /\ last'.resp = "Ok"
            /\ last'.presented \notin TokenIds(tokens')
            /\ tokens' = {t \in tokens : t.id # last'.presented}
            /\ Cardinality(tokens') = Cardinality(tokens) - 1
            /\ users' = users]_vars

\* a logout was answered 200 and another token of the same user is still
\* outstanding
C7_Witness ==
    /\ last.op = "logout"
    /\ last.resp = "Ok"
    /\ last.presented \notin TokenIds(tokens)
    /\ \E t \in tokens : t.user = last.row.id

\* C8: a revoked token stays revoked: no step makes the identifier of a
\* revoked token outstanding again, a token minted by login has an identifier
\* that was never used, and a logout presenting a revoked token is rejected
\* (401) and changes nothing.
C8_RevocationIsOneWay ==
    [][/\ revoked \subseteq revoked'
       /\ revoked' \cap TokenIds(tokens') = {}
       /\ LoginStep /\ last'.tok # NoToken =>
            last'.tok \notin revoked \cup TokenIds(tokens)
       /\ LogoutStep /\ last'.presented \in revoked =>
            /\ last'.resp = "Unauthorized"
            /\ StatusCode(last'.resp) = 401
            /\ tokens' = tokens]_vars

\* a second logout with a revoked token was rejected
C8_Witness ==
    /\ last.op = "logout"
    /\ last.presented \in revoked
    /\ last.resp = "Unauthorized"

\* C9 as stated: a login with the email and password of a register request
\* that was answered 201, for an account that is active and not soft-deleted,
\* is answered 200 with a newly minted token.
C9_RegisterThenLogin ==
    /\ last.op = "login"
    /\ last.row # NoUser
    /\ last.row.status = "active"
    /\ last.row.deletedAt = Null
    /\ \E p \in Procs :
        /\ Answered(p)
        /\ reg[p].resp = "Created"
        /\ reg[p].payload.email = last.email
        /\ reg[p].payload.password = last.password
    => last.resp = "Ok" /\ last.tok # NoToken

\* C10: the token set changes only on success. A login answered 200 adds
\* exactly one token, with a new identifier, bound to the user whose
\* credentials were verified; a logout answered 200 removes exactly one
\* token; every other login or logout, and every step of register, leaves
\* the token set unchanged; no login or logout changes a row of users.
C10_TokensChangeOnlyOnSuccess ==
    [][/\ LoginStep =>
            /\ users' = users
            /\ IF last'.resp = "Ok"
               THEN /\ last'.tok \notin TokenIds(tokens)
                    /\ HashVerify(last'.row.password, last'.password)
                    /\ tokens' = tokens \cup {[id |-> last'.tok, user |-> last'.row.id]}
                    /\ Cardinality(tokens') = Cardinality(tokens) + 1
               ELSE tokens' = tokens
       /\ LogoutStep =>
            /\ users' = users
            /\ IF last'.resp = "Ok"
               THEN \E t \in tokens : tokens' = tokens \ {t}
               ELSE tokens' = tokens
       /\ ~LoginStep /\ ~LogoutStep => tokens' = tokens]_vars

\* a logout was answered TokenMissing while tokens are outstanding
C10_Witness ==
    /\ last.op = "logout"
    /\ last.resp = "TokenMissing"
    /\ StatusCode(last.resp) = 401
    /\ tokens # {}

====
